---------------------------- MODULE Spec2Model ----------------------------
(***************************************************************************)
(* Part label generator (src/partslabel.py): the formatting helpers, the   *)
(* location parser, the column inference and the two label generation      *)
(* loops generate_labels_from_excel_v1 / _v2.                              *)
(*                                                                         *)
(* A Python str is a sequence of one-character strings.  A Python value    *)
(* (a cell of the data frame, an argument) is a record [t, v]: t is its    *)
(* type and v its payload, always a sequence.                              *)
(***************************************************************************)
EXTENDS Integers, Sequences, FiniteSets, TLC

VARIABLES
    fn, arg, ret,          \* helper under test: function applied, its argument, its result
    variant,               \* "v1" | "v2": which generate_labels_from_excel_* runs
    df,                    \* the data frame: [columns, rows]
    callbacks,             \* "given" | "none": are progress_bar and status_text supplied
    cbRaisesAt,            \* loop indices at which a callback raises inside the try
    cbRaisesIn,            \* calls outside the try at which a callback raises:
                           \* "columns" (line 178), "except" (319), "finish" (323-333),
                           \* "success" (line 551 of main)
    cbRaises,              \* what a raising callback raises: "Exception" (caught by
                           \* except Exception) | "BaseException" (not caught) | "nothing"
    status,                \* the kind of the last message given to status_text
    label_type,            \* main(): the value of the selectbox
    shown,                 \* main(): what the page shows after the run
    pc,                    \* position of the run
    part_no_col, desc_col, loc_col,
    df_grouped,            \* sequence of [key, rows]
    i,                     \* loop index of enumerate(df_grouped)
    label_count,
    elements,              \* the flowables handed to doc.build
    outcomes,              \* per processed group: [key, result]
    result                 \* what the function returns

helperVars == <<fn, arg, ret>>
runVars == <<variant, df, callbacks, cbRaisesAt, cbRaisesIn, cbRaises, status, label_type, shown,
             pc, part_no_col, desc_col, loc_col,
             df_grouped, i, label_count, elements, outcomes, result>>
vars == <<fn, arg, ret, variant, df, callbacks, cbRaisesAt, cbRaisesIn, cbRaises, status,
          label_type, shown, pc, part_no_col, desc_col, loc_col,
          df_grouped, i, label_count, elements, outcomes, result>>

---------------------------------------------------------------------------
(* Bounds of the model                                                     *)

MaxChunks == 5         \* location strings: at most this many chunks
MaxPartLen == 7        \* part numbers: at most this many characters
MaxDescLen == 102      \* descriptions: at most this many characters
MaxCols == 3           \* column lists: at most this many columns
MaxSmallRows == 3      \* small tables: arbitrary rows
MaxGroups == 9         \* long tables: one row per location
MaxCbRaises == 2       \* the callbacks raise at most this often in a run

---------------------------------------------------------------------------
(* Python values and strings                                               *)

PyStrVal(s) == [t |-> "str", v |-> s]
PyNone == [t |-> "NoneType", v |-> <<>>]
PyInt(n) == [t |-> "int", v |-> <<n>>]
PyNaN == [t |-> "float", v |-> <<"nan">>]

Digit(d) == <<"0", "1", "2", "3", "4", "5", "6", "7", "8", "9">>[d + 1]

RECURSIVE Decimal(_)
Decimal(n) == IF n < 10 THEN <<Digit(n)>> ELSE Decimal(n \div 10) \o <<Digit(n % 10)>>

\* str(x)
PyStr(x) ==
    CASE x.t = "str" -> x.v
      [] x.t = "NoneType" -> <<"N", "o", "n", "e">>
      [] x.t = "int" -> Decimal(x.v[1])
      [] x.t = "float" -> <<"n", "a", "n">>

\* bool(x)
Truthy(x) ==
    CASE x.t = "str" -> x.v # <<>>
      [] x.t = "NoneType" -> FALSE
      [] x.t = "int" -> x.v[1] # 0
      [] x.t = "float" -> TRUE

IsStr(x) == x.t = "str"

Min(S) == CHOOSE x \in S : \A y \in S : x <= y

\* the characters of the model in code point order
Chars == <<"\t", " ", "#", "-", "0", "1", "2", "3", "4", "5", "6", "7", "8", "9", "<", ">",
           "A", "B", "C", "D", "E", "I", "L", "M", "N", "O", "P", "Q", "R", "S", "T", "U", "Y",
           "_", "a", "b", "c", "d", "e", "i", "l", "m", "n", "o", "p", "q", "r", "s", "t", "u", "y">>

Code(c) == CHOOSE k \in 1..Len(Chars) : Chars[k] = c

\* str.upper() on one character
UpperChar(c) ==
    CASE c = "a" -> "A" [] c = "b" -> "B" [] c = "c" -> "C" [] c = "d" -> "D"
      [] c = "e" -> "E" [] c = "i" -> "I" [] c = "l" -> "L" [] c = "m" -> "M"
      [] c = "n" -> "N" [] c = "o" -> "O" [] c = "p" -> "P" [] c = "q" -> "Q"
      [] c = "r" -> "R" [] c = "s" -> "S" [] c = "t" -> "T" [] c = "u" -> "U"
      [] c = "y" -> "Y" [] OTHER -> c

Upper(s) == [k \in 1..Len(s) |-> UpperChar(s[k])]

\* s[:n] and s[-n:] for 0 <= n
Take(s, n) == SubSeq(s, 1, IF n < Len(s) THEN n ELSE Len(s))
Last(s, n) == SubSeq(s, IF n < Len(s) THEN Len(s) - n + 1 ELSE 1, Len(s))

\* sub in s
Contains(sub, s) ==
    \E k \in 0..(Len(s) - Len(sub)) : SubSeq(s, k + 1, k + Len(sub)) = sub

\* s < t for str
RECURSIVE StrLess(_, _)
StrLess(s, t) ==
    IF t = <<>> THEN FALSE
    ELSE IF s = <<>> THEN TRUE
    ELSE IF s[1] = t[1] THEN StrLess(Tail(s), Tail(t))
    ELSE Code(s[1]) < Code(t[1])

\* next((c for c in cols if <test>), default); hits[k] is the test on cols[k]
RECURSIVE FirstWhere(_, _, _)
FirstWhere(cols, hits, default) ==
    IF cols = <<>> THEN default
    ELSE IF hits[1] THEN PyStrVal(cols[1])
    ELSE FirstWhere(Tail(cols), Tail(hits), default)

---------------------------------------------------------------------------
(* Formatting helpers                                                      *)

\* Paragraph(markup, style): the font runs of the markup, and the style
Paragraph(runs, style) == [runs |-> runs, style |-> style]
Run(size, text) == [size |-> size, text |-> text]

\* reportlab's markup parser rejects an opening tag it does not know or that is
\* never closed; in this model "<" only ever opens such a tag
ParagraphRaises(text) == \E k \in 1..Len(text) : text[k] = "<"

\* variant: split after the first 5 characters
SplitPointAtFive(s) == 5
SplitPoint(s) == Len(s) - 5

FormatPartNo(part_no, small, large, style) ==
    LET s == IF ~Truthy(part_no) \/ ~IsStr(part_no) THEN PyStr(part_no) ELSE part_no.v
    IN  IF Len(s) > 5
        THEN Paragraph(<<Run(small, Take(s, SplitPoint(s))), Run(large, Last(s, 5))>>, style)
        ELSE Paragraph(<<Run(small, s)>>, style)

format_part_no_v1(part_no) == FormatPartNo(part_no, 17, 22, "Bold_v1")
format_part_no_v2(part_no) == FormatPartNo(part_no, 34, 40, "Bold_v2")

Ellipsis == <<".", ".", ".">>

\* variant: truncation guarded by the bucket bound
TruncateAtNinety(s) == IF Len(s) > 90 THEN Take(s, 100) \o Ellipsis ELSE s
Truncate(s) == IF Len(s) > 100 THEN Take(s, 100) \o Ellipsis ELSE s

format_description_v1(desc) ==
    LET s == IF ~Truthy(desc) \/ ~IsStr(desc) THEN PyStr(desc) ELSE desc.v
        n == Len(s)
        font_size == IF n <= 30 THEN 15
                     ELSE IF n <= 50 THEN 13
                     ELSE IF n <= 70 THEN 11
                     ELSE IF n <= 90 THEN 10
                     ELSE 9
        text == IF n <= 90 THEN s ELSE Truncate(s)
    IN  Paragraph(<<Run(font_size, text)>>, "Description_v1")

format_description(desc) ==
    LET s == IF ~Truthy(desc) \/ ~IsStr(desc) THEN PyStr(desc) ELSE desc.v
    IN  Paragraph(<<Run(20, s)>>, "Description")

---------------------------------------------------------------------------
(* Location parser                                                         *)

IsSpace(c) == c \in {" ", "\t"}

RECURSIVE LStrip(_)
LStrip(s) == IF s # <<>> /\ IsSpace(s[1]) THEN LStrip(Tail(s)) ELSE s

RECURSIVE RStrip(_)
RStrip(s) == IF s # <<>> /\ IsSpace(s[Len(s)]) THEN RStrip(SubSeq(s, 1, Len(s) - 1)) ELSE s

Strip(s) == RStrip(LStrip(s))

\* variant: underscores kept inside tokens
IsSeparatorSpaceOnly(c) == IsSpace(c)
\* a character the class [^_\s] does not match
IsSeparator(c) == c = "_" \/ IsSpace(c)

\* length of the longest prefix of s free of separators
RECURSIVE RunLen(_)
RunLen(s) == IF s = <<>> \/ IsSeparator(s[1]) THEN 0 ELSE 1 + RunLen(Tail(s))

\* re.findall(r'([^_\s]+)', s)
RECURSIVE FindAll(_)
FindAll(s) ==
    IF s = <<>> THEN <<>>
    ELSE IF IsSeparator(s[1]) THEN FindAll(Tail(s))
    ELSE LET n == RunLen(s) IN <<SubSeq(s, 1, n)>> \o FindAll(SubSeq(s, n + 1, Len(s)))

ParseLocation(location_str) ==
    IF ~Truthy(location_str) \/ ~IsStr(location_str)
    THEN [k \in 1..7 |-> <<>>]
    ELSE LET matches == FindAll(Strip(location_str.v))
             kept == Take(matches, 7)
         IN  [k \in 1..7 |-> IF k <= Len(kept) THEN kept[k] ELSE <<>>]

parse_location_string_v1(location_str) == ParseLocation(location_str)
parse_location_string_v2(location_str) == ParseLocation(location_str)

---------------------------------------------------------------------------
(* Column inference                                                        *)

PART == <<"P", "A", "R", "T">>
PARTNO == <<"P", "A", "R", "T", "N", "O">>
NO == <<"N", "O">>
NUM == <<"N", "U", "M">>
HASH == <<"#">>
DESC == <<"D", "E", "S", "C">>
LOC == <<"L", "O", "C">>
POS == <<"P", "O", "S">>

IsPartNoName(col) ==
    Contains(PART, col) /\ (Contains(NO, col) \/ Contains(NUM, col) \/ Contains(HASH, col))
IsPartName(col) == col \in {PARTNO, PART}
IsDescName(col) == Contains(DESC, col)
IsLocName(col) == Contains(LOC, col) \/ Contains(POS, col)

\* a found column is a str; "not x" holds of None and of the empty name
FindPartNoCol(cols) ==
    LET found == FirstWhere(cols, [k \in 1..Len(cols) |-> IsPartNoName(cols[k])],
                            FirstWhere(cols, [k \in 1..Len(cols) |-> IsPartName(cols[k])], PyNone))
    IN  IF ~Truthy(found) THEN cols[1] ELSE found.v

FindDescCol(cols, partCol) ==
    LET found == FirstWhere(cols, [k \in 1..Len(cols) |-> IsDescName(cols[k])], PyNone)
    IN  IF ~Truthy(found) THEN (IF Len(cols) > 1 THEN cols[2] ELSE partCol) ELSE found.v

\* variant: positional fallback on the second column
LocFallbackSecond(cols, descCol) == IF Len(cols) > 1 THEN cols[2] ELSE descCol
LocFallback(cols, descCol) == IF Len(cols) > 2 THEN cols[3] ELSE descCol

FindLocCol(cols, descCol) ==
    LET found == FirstWhere(cols, [k \in 1..Len(cols) |-> IsLocName(cols[k])], PyNone)
    IN  IF ~Truthy(found) THEN LocFallback(cols, descCol) ELSE found.v

\* lines 160-175: upper-case the names, then infer the three columns
ResolveColumns(names) ==
    LET cols == [k \in 1..Len(names) |-> Upper(names[k])]
        p == FindPartNoCol(cols)
        d == FindDescCol(cols, p)
        l == FindLocCol(cols, d)
    IN  [cols |-> cols, part_no_col |-> p, desc_col |-> d, loc_col |-> l]

---------------------------------------------------------------------------
(* The helpers applied to bounded inputs                                   *)

\* the generation run is not started
RunIdle ==
    /\ variant = "v1"
    /\ df = [columns |-> <<>>, rows |-> <<>>]
    /\ callbacks = "none" /\ cbRaisesAt = {} /\ cbRaisesIn = {} /\ cbRaises = "nothing"
    /\ status = "" /\ label_type = "none" /\ shown = ""
    /\ pc = "idle"
    /\ part_no_col = <<>> /\ desc_col = <<>> /\ loc_col = <<>>
    /\ df_grouped = <<>>
    /\ i = 0
    /\ label_count = 0
    /\ elements = <<>>
    /\ outcomes = <<>>
    /\ result = "pending"

Call(name, value) ==
    /\ fn = "none"
    /\ fn' = name
    /\ ret' = value
    /\ UNCHANGED arg
    /\ UNCHANGED runVars

RECURSIVE Concats(_, _)
\* the strings made of at most n pieces
Concats(pieces, n) ==
    IF n = 0 THEN {<<>>}
    ELSE LET S == Concats(pieces, n - 1) IN S \cup {s \o c : s \in S, c \in pieces}

NonStrings == {PyNone, PyNaN, PyInt(0), PyInt(1234567)}

LocationChunks == {<<"A", "_", "7", " ">>, <<"b", "-", " ">>, <<"\t", "c">>, <<"_">>}
ParseInputs == {PyStrVal(s) : s \in Concats(LocationChunks, MaxChunks)} \cup NonStrings

InitParse == fn = "none" /\ arg \in ParseInputs /\ ret = <<>> /\ RunIdle
CallParseV1 == Call("parse_location_string_v1", parse_location_string_v1(arg))
CallParseV2 == Call("parse_location_string_v2", parse_location_string_v2(arg))
NextParse == CallParseV1 \/ CallParseV2
SpecParse == InitParse /\ [][NextParse]_vars

\* a description of n characters whose k-th character tells k modulo 3
DescOfLen(n) == [k \in 1..n |-> <<"a", "b", "c">>[(k % 3) + 1]]
PartNoInputs == {PyStrVal(s) : s \in Concats({<<"A">>, <<"7">>}, MaxPartLen)}
DescInputs == {PyStrVal(DescOfLen(n)) : n \in 0..MaxDescLen}
FormatInputs == PartNoInputs \cup DescInputs \cup NonStrings

InitFormat == fn = "none" /\ arg \in FormatInputs /\ ret = <<>> /\ RunIdle
CallFormatPartNoV1 == Call("format_part_no_v1", format_part_no_v1(arg))
CallFormatPartNoV2 == Call("format_part_no_v2", format_part_no_v2(arg))
CallFormatDescriptionV1 == Call("format_description_v1", format_description_v1(arg))
CallFormatDescription == Call("format_description", format_description(arg))
NextFormat ==
    \/ CallFormatPartNoV1
    \/ CallFormatPartNoV2
    \/ CallFormatDescriptionV1
    \/ CallFormatDescription
SpecFormat == InitFormat /\ [][NextFormat]_vars

ColumnNames ==
    { <<"P", "a", "r", "t", " ", "N", "o">>,
      <<"P", "a", "r", "t">>,
      <<"P", "a", "r", "t", "#">>,
      <<"P", "a", "r", "t", " ", "D", "e", "s", "c">>,
      <<"D", "e", "s", "c">>,
      <<"L", "o", "c">>,
      <<"P", "o", "s">>,
      <<"Q", "t", "y">>,
      <<"N", "a", "m", "e">>,
      <<"N", "o", "t", "e", "s">> }
ColumnLists == UNION {[1..n -> ColumnNames] : n \in 1..MaxCols}

InitColumns == fn = "none" /\ arg \in ColumnLists /\ ret = <<>> /\ RunIdle
CallResolveColumns == Call("resolve_columns", ResolveColumns(arg))
NextColumns == CallResolveColumns
SpecColumns == InitColumns /\ [][NextColumns]_vars

---------------------------------------------------------------------------
(* Label generation: generate_labels_from_excel_v1 / _v2                   *)

MAX_LABELS_PER_PAGE == 4

\* position of the column called name
ColIndex(columns, name) == Min({k \in 1..Len(columns) : columns[k] = name})
\* row[name]
Cell(row, name) == row[ColIndex(df.columns, name)]

\* pandas drops the rows whose group key is missing (dropna=True)
IsMissing(x) == x.t \in {"NoneType", "float"}

RECURSIVE SortKeys(_)
\* the keys in ascending order (str comparison)
SortKeys(S) ==
    IF S = {} THEN <<>>
    ELSE LET m == CHOOSE x \in S : \A y \in S \ {x} : StrLess(x.v, y.v)
         IN  <<m>> \o SortKeys(S \ {m})

KeyColumn(rows, c) == [k \in 1..Len(rows) |-> rows[k][c]]
PresentKey(x) == ~IsMissing(x)

\* group keys of df.groupby(col): sort=True is the default
GroupKeys(rows, c) ==
    LET present == SelectSeq(KeyColumn(rows, c), PresentKey)
    IN  SortKeys({present[k] : k \in 1..Len(present)})

\* df.groupby(col): one (key, rows) per key, the rows of a group in frame order
GroupBy(rows, c) ==
    LET keys == GroupKeys(rows, c)
    IN  [k \in 1..Len(keys) |->
            LET InGroup(row) == row[c] = keys[k]
            IN  [key |-> keys[k], rows |-> SelectSeq(rows, InGroup)]]

\* group.head(2)
Head2(group) == Take(group, 2)

\* variant: no break after the first four labels
NeedsPageBreakAfterFirstPage(count) ==
    count > MAX_LABELS_PER_PAGE /\ count % MAX_LABELS_PER_PAGE = 0
\* line 211 / 396
NeedsPageBreak(count) == count > 0 /\ count % MAX_LABELS_PER_PAGE = 0

Element(kind, data) == [kind |-> kind, data |-> data]
PageBreak == Element("PageBreak", <<>>)
\* Spacer(1, h * cm), h in millimetres
Spacer(mm) == Element("Spacer", <<mm>>)

\* constructing the Paragraph raises on malformed markup
ParagraphFails(p) == \E k \in 1..Len(p.runs) : ParagraphRaises(p.runs[k].text)

\* lines 216-315: the flowables of one v1 label, or "raise"
BlockV1(part1, part2) ==
    LET part_no_1 == PyStrVal(PyStr(Cell(part1, part_no_col)))
        desc_1 == PyStrVal(PyStr(Cell(part1, desc_col)))
        part_no_2 == PyStrVal(PyStr(Cell(part2, part_no_col)))
        desc_2 == PyStrVal(PyStr(Cell(part2, desc_col)))
        location_str == PyStrVal(PyStr(Cell(part1, loc_col)))
        location_values == parse_location_string_v1(location_str)
        cells == <<format_part_no_v1(part_no_1), format_description_v1(desc_1),
                   format_part_no_v1(part_no_2), format_description_v1(desc_2)>>
    IN  IF \E k \in 1..4 : ParagraphFails(cells[k])
        THEN [raised |-> TRUE, flowables |-> <<>>]
        ELSE [raised |-> FALSE,
              flowables |-> << Element("part_table", <<cells[1], cells[2]>>),
                               Spacer(3),
                               Element("part_table2", <<cells[3], cells[4]>>),
                               Element("location_table", location_values),
                               Spacer(2) >>]

\* lines 401-473: the flowables of one v2 label, or "raise"
BlockV2(part1) ==
    LET part_no == PyStrVal(PyStr(Cell(part1, part_no_col)))
        desc == PyStrVal(PyStr(Cell(part1, desc_col)))
        location_str == PyStrVal(PyStr(Cell(part1, loc_col)))
        location_values == parse_location_string_v2(location_str)
        cells == <<format_part_no_v2(part_no), format_description(desc)>>
    IN  IF \E k \in 1..2 : ParagraphFails(cells[k])
        THEN [raised |-> TRUE, flowables |-> <<>>]
        ELSE [raised |-> FALSE,
              flowables |-> << Element("part_table", <<cells[1], cells[2]>>),
                               Spacer(3),
                               Element("location_table", location_values),
                               Spacer(2) >>]

\* what status_text shows after a message of this kind
Said(kind) == IF callbacks = "given" THEN kind ELSE status

\* lines 160-188: infer the columns, group by location, start with an empty document
Setup ==
    /\ pc = "start"
    /\ "columns" \notin cbRaisesIn
    /\ LET rc == ResolveColumns(df.columns)
       IN  /\ df' = [df EXCEPT !.columns = rc.cols]
           /\ part_no_col' = rc.part_no_col
           /\ desc_col' = rc.desc_col
           /\ loc_col' = rc.loc_col
           /\ df_grouped' = GroupBy(df.rows, ColIndex(rc.cols, rc.loc_col))
    /\ i' = 0
    /\ label_count' = 0
    /\ elements' = <<>>
    /\ pc' = "loop"
    /\ status' = Said("columns")
    /\ UNCHANGED <<variant, callbacks, cbRaisesAt, cbRaisesIn, cbRaises, label_type, shown,
                   outcomes, result>>
    /\ UNCHANGED helperVars

\* line 178: status_text.text raises before the loop, and the exception leaves
\* the function
SetupRaises ==
    /\ pc = "start"
    /\ "columns" \in cbRaisesIn
    /\ LET rc == ResolveColumns(df.columns)
       IN  /\ df' = [df EXCEPT !.columns = rc.cols]
           /\ part_no_col' = rc.part_no_col
           /\ desc_col' = rc.desc_col
           /\ loc_col' = rc.loc_col
    /\ pc' = "aborted"
    /\ result' = "exception"
    /\ UNCHANGED <<variant, callbacks, cbRaisesAt, cbRaisesIn, cbRaises, status, label_type, shown,
                   df_grouped, i, label_count, elements, outcomes>>
    /\ UNCHANGED helperVars

Outcome(key, res) == [key |-> key, result |-> res]

\* lines 190-320: one iteration of the loop, the except clause included
ProcessGroup ==
    /\ pc = "loop"
    /\ i < Len(df_grouped)
    /\ LET location == df_grouped[i + 1].key
           group == df_grouped[i + 1].rows
           parts == Head2(group)
           part1 == parts[1]
           part2 == IF Len(parts) < 2 THEN parts[1] ELSE parts[2]
           block == IF variant = "v1" THEN BlockV1(part1, part2) ELSE BlockV2(part1)
           paged == IF NeedsPageBreak(label_count) THEN Append(elements, PageBreak)
                    ELSE elements
           \* the exception leaves the function; said is what status_text shows then
           Leave(said) ==
               /\ pc' = "aborted" /\ result' = "exception" /\ status' = said
           \* lines 317-320: except Exception catches what is an Exception; its own
           \* status_text.text may raise (line 319)
           Skip(caught, elems, said) ==
               /\ elements' = elems
               /\ outcomes' = Append(outcomes, Outcome(location, "raised"))
               /\ IF ~caught \/ "except" \in cbRaisesIn
                  THEN Leave(said)
                  ELSE pc' = pc /\ result' = result /\ status' = Said("error")
       IN  IF i \in cbRaisesAt
           THEN \* progress_bar.progress or status_text.text raised at lines 192-197
                /\ Skip(cbRaises = "Exception", elements, status)
                /\ UNCHANGED label_count
           ELSE IF Len(parts) = 0
           THEN /\ outcomes' = Append(outcomes, Outcome(location, "empty"))
                /\ status' = Said("processing")
                /\ UNCHANGED <<label_count, elements, pc, result>>
           ELSE /\ label_count' = label_count + 1
                /\ IF block.raised
                   THEN \* Paragraph raises ValueError
                        Skip(TRUE, paged, Said("processing"))
                   ELSE /\ elements' = paged \o block.flowables
                        /\ outcomes' = Append(outcomes, Outcome(location, "ok"))
                        /\ status' = Said("processing")
                        /\ UNCHANGED <<pc, result>>
    /\ i' = i + 1
    /\ UNCHANGED <<variant, df, callbacks, cbRaisesAt, cbRaisesIn, cbRaises, label_type, shown,
                   part_no_col, desc_col, loc_col, df_grouped>>
    /\ UNCHANGED helperVars

\* lines 322-334: build the document if there is anything to build
Finish ==
    /\ pc = "loop"
    /\ i = Len(df_grouped)
    /\ "finish" \notin cbRaisesIn
    /\ result' = IF elements # <<>> THEN "buffer" ELSE "None"
    /\ status' = Said(IF elements # <<>> THEN "building" ELSE "no labels")
    /\ pc' = "done"
    /\ UNCHANGED <<variant, df, callbacks, cbRaisesAt, cbRaisesIn, cbRaises, label_type, shown,
                   part_no_col, desc_col, loc_col,
                   df_grouped, i, label_count, elements, outcomes>>
    /\ UNCHANGED helperVars

\* lines 322-333: a callback raises after the loop, and the exception leaves the
\* function
FinishRaises ==
    /\ pc = "loop"
    /\ i = Len(df_grouped)
    /\ "finish" \in cbRaisesIn
    /\ result' = "exception"
    /\ pc' = "aborted"
    /\ UNCHANGED <<variant, df, callbacks, cbRaisesAt, cbRaisesIn, cbRaises, status, label_type, shown,
                   part_no_col, desc_col, loc_col,
                   df_grouped, i, label_count, elements, outcomes>>
    /\ UNCHANGED helperVars

(* Input tables *)

\* two sheet layouts: the columns, and for each the field of a record it holds
\* (1 part number, 2 description, 3 location)
Layouts ==
    { [columns |-> << <<"P", "a", "r", "t", " ", "N", "o">>,
                      <<"D", "e", "s", "c", "r", "i", "p", "t", "i", "o", "n">>,
                      <<"L", "o", "c", "a", "t", "i", "o", "n">> >>,
       fields |-> <<1, 2, 3>>],
      [columns |-> << <<"L", "o", "c">>,
                      <<"P", "a", "r", "t", "#">>,
                      <<"D", "e", "s", "c">> >>,
       fields |-> <<3, 1, 2>>] }

\* a table of the layout from records <<part number, description, location>>
Table(layout, records) ==
    [columns |-> layout.columns,
     rows |-> [k \in 1..Len(records) |-> [c \in 1..3 |-> records[k][layout.fields[c]]]]]

\* the part number of the k-th row: a str, or a number every third row
PartNoCell(k) ==
    IF k % 3 = 0 THEN PyInt(70000 + k)
    ELSE PyStrVal(<<"A", "B", "-", "1", "2">> \o Decimal(k))

GoodDesc == PyStrVal(<<"B", "o", "l", "t">>)
BadDesc == PyStrVal(<<"<", "i", ">", "N", "u", "t">>)

SmallLocs == {PyStrVal(<<"B", " ", "2">>), PyStrVal(<<"A", "_", "1">>), PyNaN}

\* up to MaxSmallRows records, any location and description in each
SmallTables ==
    UNION {
        { Table(layout, [k \in 1..n |-> <<PartNoCell(k), d[k], l[k]>>]) :
            d \in [1..n -> {GoodDesc, BadDesc}], l \in [1..n -> SmallLocs] }
        : n \in 0..MaxSmallRows, layout \in Layouts }

LongLoc(r) == PyStrVal(<<"R", "_">> \o Decimal(r))
LongLayout == CHOOSE layout \in Layouts : layout.fields = <<1, 2, 3>>

\* n records, one per location, the locations in descending order, the records
\* a..b-1 with a malformed description
LongTables ==
    { Table(LongLayout,
            [k \in 1..n |->
                <<PartNoCell(k), IF a <= k /\ k < b THEN BadDesc ELSE GoodDesc,
                  LongLoc(n + 1 - k)>>]) :
        n \in 0..MaxGroups, a \in 1..(MaxGroups + 1), b \in 1..(MaxGroups + 1) }

InputTables == SmallTables \cup LongTables

\* the loop indices at which the status callback raises
CallbackChoices(n) == {S \in SUBSET (0..(n - 1)) : Cardinality(S) <= MaxCbRaises}

\* the calls outside the loop's try at which a callback of the function may raise
RaisePoints == {"columns", "except", "finish"}
\* in main() there is one more call, after the function has returned
MainRaisePoints == RaisePoints \cup {"success"}

\* what the callbacks do at the calls named in points: they raise at no more than
\* MaxCbRaises of their calls (at no more than one on a table of MaxSmallRows
\* rows or more), an Exception or something that is not one
CallbacksRaise(points) ==
    /\ cbRaisesAt \in CallbackChoices(Len(df.rows))
    /\ cbRaisesIn \in SUBSET points
    /\ Cardinality(cbRaisesAt) + Cardinality(cbRaisesIn)
          <= IF Len(df.rows) < MaxSmallRows THEN MaxCbRaises ELSE 1
    /\ IF cbRaisesAt = {} /\ cbRaisesIn = {}
       THEN cbRaises = "nothing"
       ELSE cbRaises \in {"Exception", "BaseException"}

\* what the callbacks of a run do: nothing is supplied, or progress_bar and
\* status_text are
CallbackBehaviour ==
    \/ callbacks = "none" /\ cbRaisesAt = {} /\ cbRaisesIn = {} /\ cbRaises = "nothing"
    \/ callbacks = "given" /\ CallbacksRaise(RaisePoints)

\* the run has not started
RunStart ==
    /\ status = "" /\ shown = ""
    /\ part_no_col = <<>> /\ desc_col = <<>> /\ loc_col = <<>>
    /\ df_grouped = <<>>
    /\ i = 0
    /\ label_count = 0
    /\ elements = <<>>
    /\ outcomes = <<>>
    /\ result = "pending"

\* generate_labels_from_excel_v1 / _v2 called on a table
Init ==
    /\ fn = "none" /\ arg = PyNone /\ ret = <<>>
    /\ variant \in {"v1", "v2"}
    /\ label_type = "none"
    /\ df \in InputTables
    /\ CallbackBehaviour
    /\ pc = "start"
    /\ RunStart

Next == Setup \/ SetupRaises \/ ProcessGroup \/ Finish \/ FinishRaises

Spec == Init /\ [][Next]_vars

(* main(): the selector, the button, the report *)

\* line 508: the options of the selectbox
LabelTypes == {"Enhanced Labels (v2)", "Standard Labels (v1)"}

\* lines 543-548: the pipeline the button runs for a selector value
Dispatch(choice) ==
    IF choice = "Single Part"
    THEN [variant |-> "v2", filename |-> "singlepart_labels.pdf"]
    ELSE [variant |-> "v1", filename |-> "multiplepart_labels.pdf"]

\* lines 535-548: the button is pressed: progress indicators are created and the
\* pipeline of the selected label type is called with them
ClickGenerate ==
    /\ pc = "main"
    /\ variant' = Dispatch(label_type).variant
    /\ pc' = "start"
    /\ UNCHANGED <<df, callbacks, cbRaisesAt, cbRaisesIn, cbRaises, status, label_type, shown,
                   part_no_col, desc_col, loc_col,
                   df_grouped, i, label_count, elements, outcomes, result>>
    /\ UNCHANGED helperVars

\* lines 550-569: the download button, or one of the two error messages; what
\* is not an Exception passes the except clauses of lines 567 and 571 and leaves
\* main()
Report ==
    /\ pc \in {"done", "aborted"}
    /\ label_type \in LabelTypes
    /\ LET \* status_text.text of line 551 is inside the try of line 541
           raises == \/ result = "exception"
                     \/ result = "buffer" /\ "success" \in cbRaisesIn
       IN  IF raises
           THEN /\ IF cbRaises = "Exception"
                   THEN shown' = "An error occurred" /\ pc' = "reported"
                   ELSE shown' = shown /\ pc' = "raised"
                /\ status' = status
           ELSE IF result = "buffer"
           THEN /\ status' = "generated"
                /\ shown' = Dispatch(label_type).filename
                /\ pc' = "reported"
           ELSE /\ status' = status
                /\ shown' = "Failed to generate PDF"
                /\ pc' = "reported"
    /\ UNCHANGED <<variant, df, callbacks, cbRaisesAt, cbRaisesIn, cbRaises, label_type,
                   part_no_col, desc_col, loc_col,
                   df_grouped, i, label_count, elements, outcomes, result>>
    /\ UNCHANGED helperVars

\* a file is uploaded and a label type selected
InitMain ==
    /\ fn = "none" /\ arg = PyNone /\ ret = <<>>
    /\ variant = "unset"
    /\ label_type \in LabelTypes
    /\ df \in InputTables
    /\ callbacks = "given"
    /\ CallbacksRaise(MainRaisePoints)
    /\ pc = "main"
    /\ RunStart

NextMain ==
    \/ ClickGenerate
    \/ Setup
    \/ SetupRaises
    \/ ProcessGroup
    \/ Finish
    \/ FinishRaises
    \/ Report

SpecMain == InitMain /\ [][NextMain]_vars

---------------------------------------------------------------------------
(* Properties of a generation run                                          *)

\* a label block starts with its part_table
BlockStarts(e) == {k \in 1..Len(e) : e[k].kind = "part_table"}
NumBlocks(e) == Cardinality(BlockStarts(e))
BlocksBefore(e, idx) == Cardinality({k \in BlockStarts(e) : k < idx})
KthBlockStart(e, n) == CHOOSE k \in BlockStarts(e) : BlocksBefore(e, k) = n - 1

RECURSIVE PageCountsFrom(_, _, _)
PageCountsFrom(e, k, cur) ==
    IF k > Len(e) THEN <<cur>>
    ELSE IF e[k].kind = "PageBreak" THEN <<cur>> \o PageCountsFrom(e, k + 1, 0)
    ELSE PageCountsFrom(e, k + 1, IF e[k].kind = "part_table" THEN cur + 1 ELSE cur)
\* the number of blocks on each page of the document
PageCounts(e) == PageCountsFrom(e, 1, 0)

IsOk(o) == o.result = "ok"
IsRaised(o) == o.result = "raised"
OkOutcomes == SelectSeq(outcomes, IsOk)
SomeRaised == \E k \in 1..Len(outcomes) : IsRaised(outcomes[k])

\* the rows of the frame with this location, in frame order
LocIndex == ColIndex(df.columns, loc_col)
RecordsOf(key) == LET HasKey(row) == row[LocIndex] = key IN SelectSeq(df.rows, HasKey)
FirstRow(key) == Min({k \in 1..Len(df.rows) : df.rows[k][LocIndex] = key})

\* the text a Paragraph shows
RECURSIVE JoinRuns(_)
JoinRuns(runs) == IF runs = <<>> THEN <<>> ELSE runs[1].text \o JoinRuns(Tail(runs))
\* the part number and description a part table shows
Shown(table) == <<JoinRuns(table.data[1].runs), JoinRuns(table.data[2].runs)>>
\* the part number and description of a record, as text
TextOf(row) == <<PyStr(Cell(row, part_no_col)), PyStr(Cell(row, desc_col))>>

\* the k-th block carries the location strip of the k-th group that succeeded
LocationStripsFollowOutcomes ==
    /\ NumBlocks(elements) = Len(OkOutcomes)
    /\ \A n \in 1..Len(OkOutcomes) :
          LET b == KthBlockStart(elements, n)
              strip == elements[b + (IF variant = "v1" THEN 3 ELSE 2)]
          IN  /\ strip.kind = "location_table"
              /\ strip.data = ParseLocation(PyStrVal(PyStr(OkOutcomes[n].key)))

\* C1: a page break stands exactly before the 5th, 9th, 13th, ... block placed
\* in the document and nowhere else, also when groups raise and are skipped, so
\* every page but the last holds exactly 4 blocks.
C1_BreakBeforeEveryFifthPlaced ==
    /\ \A k \in 1..Len(elements) :
          elements[k].kind = "PageBreak" =>
              /\ BlocksBefore(elements, k) > 0
              /\ BlocksBefore(elements, k) % 4 = 0
              /\ k < Len(elements)
              /\ elements[k + 1].kind = "part_table"
    /\ \A k \in BlockStarts(elements) :
          (BlocksBefore(elements, k) > 0 /\ BlocksBefore(elements, k) % 4 = 0) =>
              elements[k - 1].kind = "PageBreak"
    /\ LET pages == PageCounts(elements)
       IN  \A n \in 1..(Len(pages) - 1) : pages[n] = 4

\* C2: in every state of a run, v1 or v2, whatever groups succeed or fail, no
\* page (the elements between two page breaks) holds more than 4 label blocks.
C2_AtMostFourPerPage ==
    LET pages == PageCounts(elements)
    IN  \A n \in 1..Len(pages) : pages[n] <= 4

\* a finished run in which a group was skipped, with a full first page and
\* blocks after it
C2_Witness ==
    /\ pc = "done"
    /\ SomeRaised
    /\ Len(PageCounts(elements)) >= 2
    /\ PageCounts(elements)[1] = 4
    /\ PageCounts(elements)[2] >= 1

\* C3: the blocks follow the order in which their locations first appear in the
\* rows, not the sorted order of the location keys: when location X first occurs
\* in an earlier row than location Y, the block of X stands before the block of Y.
C3_FirstAppearanceOrder ==
    /\ LocationStripsFollowOutcomes
    /\ \A a, b \in 1..Len(OkOutcomes) :
          a < b => FirstRow(OkOutcomes[a].key) < FirstRow(OkOutcomes[b].key)

\* the order that df.groupby gives instead: the blocks follow the ascending
\* (string) order of the location keys, whatever the order of the rows
BlocksInSortedKeyOrder ==
    /\ LocationStripsFollowOutcomes
    /\ \A a, b \in 1..Len(OkOutcomes) :
          a < b => StrLess(OkOutcomes[a].key.v, OkOutcomes[b].key.v)

\* two blocks whose locations first appear in the opposite order in the rows
BlocksOutOfRowOrder ==
    /\ pc = "done"
    /\ Len(OkOutcomes) >= 2
    /\ NumBlocks(elements) >= 2
    /\ FirstRow(OkOutcomes[1].key) > FirstRow(OkOutcomes[2].key)

BlockKinds ==
    IF variant = "v1"
    THEN <<"part_table", "Spacer", "part_table2", "location_table", "Spacer">>
    ELSE <<"part_table", "Spacer", "location_table", "Spacer">>
IsFlowable(e) == e.kind # "PageBreak"

\* the finished list holds the complete block of every group that succeeded, in
\* group order, and every group was processed
CompleteBlocksOfOkGroups ==
    pc = "done" =>
        LET placed == SelectSeq(elements, IsFlowable)
            w == Len(BlockKinds)
        IN  /\ Len(outcomes) = Len(df_grouped)
            /\ Len(placed) = w * Len(OkOutcomes)
            /\ \A k \in 1..Len(placed) : placed[k].kind = BlockKinds[((k - 1) % w) + 1]
            /\ LocationStripsFollowOutcomes

\* the step of a group that raised added nothing to the element list
RaisedGroupAddsNothing ==
    (Len(outcomes') = Len(outcomes) + 1 /\ IsRaised(outcomes'[Len(outcomes')]))
        => elements' = elements

\* C4: when the step of one group raises, the run goes on with the later groups;
\* the finished element list holds the complete block of every group that did
\* not raise, in group order, and no element at all from a group that raised.
C4_SkippedGroupLeavesNoElement ==
    [](CompleteBlocksOfOkGroups) /\ [][RaisedGroupAddsNothing]_vars

\* C5: the run returns None whenever no group yielded a block (no rows, or every
\* group raised), and returns a document only if at least one block was placed.
C5_AbsentIffNoBlock ==
    pc = "done" => (result = "None" <=> NumBlocks(elements) = 0)

\* the records of a group that a block shows: the first two under v1 (the first
\* twice when there is one), the first under v2
Leading(recs) ==
    IF variant = "v2" THEN <<recs[1]>>
    ELSE IF Len(recs) = 1 THEN <<recs[1], recs[1]>>
    ELSE <<recs[1], recs[2]>>
WellFormed(row) ==
    \A t \in {TextOf(row)[1], TextOf(row)[2]} : \A k \in 1..Len(t) : t[k] # "<"
PresentKeys ==
    {df.rows[k][LocIndex] : k \in {j \in 1..Len(df.rows) : df.rows[j][LocIndex].t = "str"}}

\* the selection rule on the groups whose step does not raise: each of them has
\* one block built from its leading records in row order: under v1 the two part
\* tables show records 1 and 2, or record 1 twice when it is the only one; under
\* v2 the part table shows record 1; no later record of the group is shown
\* anywhere, and no block comes from a group without records. A group is skipped
\* exactly when a callback raises in its step or a leading record is malformed.
PlacedBlocksShowLeadingRecords ==
    pc \in {"loop", "done"} =>
        /\ NumBlocks(elements) = Len(OkOutcomes)
        /\ \A n \in 1..Len(outcomes) :
              LET recs == RecordsOf(outcomes[n].key)
                  lead == Leading(recs)
              IN  /\ Len(recs) >= 1
                  /\ IsOk(outcomes[n]) <=>
                        /\ (n - 1) \notin cbRaisesAt
                        /\ \A k \in 1..Len(lead) : WellFormed(lead[k])
        /\ \A n \in 1..Len(OkOutcomes) :
              LET recs == RecordsOf(OkOutcomes[n].key)
                  lead == Leading(recs)
                  b == KthBlockStart(elements, n)
              IN  /\ Shown(elements[b]) = TextOf(lead[1])
                  /\ variant = "v1" =>
                        /\ elements[b + 2].kind = "part_table2"
                        /\ Shown(elements[b + 2]) = TextOf(lead[2])
                  /\ \A j \in (IF variant = "v1" THEN 3 ELSE 2)..Len(recs) :
                        \A k \in 1..Len(elements) :
                            elements[k].kind \in {"part_table", "part_table2"} =>
                                Shown(elements[k])[1] # TextOf(recs[j])[1]
        /\ pc = "done" =>
              /\ {outcomes[n].key : n \in 1..Len(outcomes)} = PresentKeys
              /\ Len(outcomes) = Cardinality(PresentKeys)

\* C6: every location group with at least one record yields exactly one block,
\* built only from the leading records of the group in row order: under v1 the
\* two part tables show records 1 and 2, or record 1 twice when it is the only
\* one; under v2 the part table shows record 1; a later record of the group is
\* shown in no block, and a group without records yields no block.
C6_BlockFromLeadingRecords ==
    /\ PlacedBlocksShowLeadingRecords
    /\ pc \in {"loop", "done"} =>
          /\ \A n \in 1..Len(outcomes) :
                Len(RecordsOf(outcomes[n].key)) >= 1 => IsOk(outcomes[n])
          /\ NumBlocks(elements) = Len(outcomes)

\* a v1 run placed the block of a group of three records: it shows the first two
ThirdRecordDropped ==
    /\ pc = "done"
    /\ variant = "v1"
    /\ \E n \in 1..Len(OkOutcomes) :
          /\ Len(RecordsOf(OkOutcomes[n].key)) = 3
          /\ Shown(elements[KthBlockStart(elements, n) + 2])
                = TextOf(RecordsOf(OkOutcomes[n].key)[2])

RECURSIVE ElementsFrom(_, _, _)
\* the element list of the loop from group k on when no callback is supplied
ElementsFrom(k, count, elems) ==
    IF k > Len(df_grouped) THEN elems
    ELSE LET parts == Head2(df_grouped[k].rows)
             part1 == parts[1]
             part2 == IF Len(parts) < 2 THEN parts[1] ELSE parts[2]
             block == IF variant = "v1" THEN BlockV1(part1, part2) ELSE BlockV2(part1)
             paged == IF NeedsPageBreak(count) THEN Append(elems, PageBreak) ELSE elems
         IN  ElementsFrom(k + 1, count + 1,
                          IF block.raised THEN paged ELSE paged \o block.flowables)
\* the run of the same function on the same table without callbacks
ElementsWithoutCallbacks == ElementsFrom(1, 0, <<>>)
ResultWithoutCallbacks == IF ElementsWithoutCallbacks # <<>> THEN "buffer" ELSE "None"

\* C11: the progress callback has no effect on the outcome: whatever the
\* callbacks do when they are called, the run ends as the run without callbacks
\* does, with the same blocks in the same order and the same page breaks.
C11_CallbackHasNoEffect ==
    /\ pc # "aborted"
    /\ pc = "done" =>
          /\ elements = ElementsWithoutCallbacks
          /\ result = ResultWithoutCallbacks

\* C12: the label type chosen in main() selects the pipeline that runs: the v2
\* option runs generate_labels_from_excel_v2 and the v1 option runs
\* generate_labels_from_excel_v1.
C12_SelectorChoosesVariant ==
    pc # "main" =>
        /\ label_type = "Enhanced Labels (v2)" => variant = "v2"
        /\ label_type = "Standard Labels (v1)" => variant = "v1"

---------------------------------------------------------------------------
(* Properties of the helpers                                               *)

\* a character that is neither whitespace nor an underscore
IsTokenChar(c) == c \notin {"_", " ", "\t"}
\* positions where a maximal run of token characters starts
TokenStarts(s) ==
    {p \in 1..Len(s) : IsTokenChar(s[p]) /\ (p = 1 \/ ~IsTokenChar(s[p - 1]))}
\* last position of the maximal run that starts at p
TokenEnd(s, p) ==
    CHOOSE q \in p..Len(s) :
        /\ \A r \in p..q : IsTokenChar(s[r])
        /\ (q = Len(s) \/ ~IsTokenChar(s[q + 1]))
KthStart(s, k) ==
    CHOOSE p \in TokenStarts(s) : Cardinality({q \in TokenStarts(s) : q < p}) = k - 1
KthToken(s, k) == SubSeq(s, KthStart(s, k), TokenEnd(s, KthStart(s, k)))

ParseCalled == fn \in {"parse_location_string_v1", "parse_location_string_v2"}

\* C7: for every input (a string, the empty string, None, a non-string), both
\* parsers return exactly 7 strings: slot k holds the k-th maximal run of
\* characters that are neither whitespace nor underscore while k is at most the
\* number of such runs, every other slot is empty, runs after the 7th are dropped.
C7_SevenFields ==
    ParseCalled =>
        /\ DOMAIN ret = 1..7
        /\ \A k \in 1..7 :
              IF IsStr(arg) /\ k <= Cardinality(TokenStarts(arg.v))
              THEN ret[k] = KthToken(arg.v, k)
              ELSE ret[k] = <<>>

\* a string of more than 7 tokens was parsed and the 7th slot is filled
C7_Witness ==
    /\ fn = "parse_location_string_v2"
    /\ IsStr(arg)
    /\ Cardinality(TokenStarts(arg.v)) > 7
    /\ ret[7] # <<>>

PartNoSizes == IF fn = "format_part_no_v1" THEN <<17, 22>> ELSE <<34, 40>>

\* C8: a part number longer than 5 characters is split at index length-5 into a
\* prefix of length-5 characters at the smaller size and a suffix of exactly 5
\* characters at the larger size, and prefix followed by suffix is the part
\* number; one of at most 5 characters is a single run at the smaller size.
C8_PartNoSplit ==
    fn \in {"format_part_no_v1", "format_part_no_v2"} =>
        LET s == PyStr(arg)
            n == Len(s)
        IN  IF n > 5
            THEN /\ Len(ret.runs) = 2
                 /\ ret.runs[1].size = PartNoSizes[1]
                 /\ ret.runs[2].size = PartNoSizes[2]
                 /\ ret.runs[1].text = SubSeq(s, 1, n - 5)
                 /\ Len(ret.runs[1].text) = n - 5
                 /\ Len(ret.runs[2].text) = 5
                 /\ ret.runs[1].text \o ret.runs[2].text = s
            ELSE ret.runs = <<[size |-> PartNoSizes[1], text |-> s]>>

\* a part number of 7 characters was split into 2 + 5
C8_Witness ==
    /\ fn = "format_part_no_v1"
    /\ IsStr(arg)
    /\ Len(arg.v) = 7
    /\ Len(ret.runs) = 2
    /\ Len(ret.runs[1].text) = 2

\* C9: under v1 a description longer than 100 characters is rendered as its
\* first 100 characters followed by "..."; one of at most 100 characters is
\* rendered unchanged, whatever its font size bucket.
C9_DescriptionTruncation ==
    fn = "format_description_v1" =>
        LET s == PyStr(arg)
            text == ret.runs[1].text
        IN  /\ Len(ret.runs) = 1
            /\ IF Len(s) > 100
               THEN text = SubSeq(s, 1, 100) \o <<".", ".", ".">>
               ELSE text = s

\* a description of 101 characters was cut to 100 characters plus the ellipsis
C9_Witness ==
    /\ fn = "format_description_v1"
    /\ IsStr(arg)
    /\ Len(arg.v) = 101
    /\ Len(ret.runs[1].text) = 103

MatchingPartNo(cols) ==
    {k \in 1..Len(cols) :
        /\ Contains(<<"P", "A", "R", "T">>, cols[k])
        /\ \/ Contains(<<"N", "O">>, cols[k])
           \/ Contains(<<"N", "U", "M">>, cols[k])
           \/ Contains(<<"#">>, cols[k])}
MatchingPart(cols) ==
    {k \in 1..Len(cols) : cols[k] = <<"P", "A", "R", "T", "N", "O">> \/ cols[k] = <<"P", "A", "R", "T">>}
MatchingDesc(cols) == {k \in 1..Len(cols) : Contains(<<"D", "E", "S", "C">>, cols[k])}
MatchingLoc(cols) ==
    {k \in 1..Len(cols) :
        Contains(<<"L", "O", "C">>, cols[k]) \/ Contains(<<"P", "O", "S">>, cols[k])}

ExpectedPartNoCol(cols) ==
    IF MatchingPartNo(cols) # {} THEN cols[Min(MatchingPartNo(cols))]
    ELSE IF MatchingPart(cols) # {} THEN cols[Min(MatchingPart(cols))]
    ELSE cols[1]
ExpectedDescCol(cols) ==
    IF MatchingDesc(cols) # {} THEN cols[Min(MatchingDesc(cols))]
    ELSE IF Len(cols) >= 2 THEN cols[2]
    ELSE ExpectedPartNoCol(cols)
ExpectedLocCol(cols) ==
    IF MatchingLoc(cols) # {} THEN cols[Min(MatchingLoc(cols))]
    ELSE IF Len(cols) >= 3 THEN cols[3]
    ELSE ExpectedDescCol(cols)

\* C10: for every non-empty list of column names, upper-cased, the part number
\* column is the first containing PART and one of NO, NUM, #, else the first
\* equal to PARTNO or PART, else the first column; the description column is the
\* first containing DESC, else the second column, else the part number column;
\* the location column is the first containing LOC or POS, else the third
\* column, else the description column; the three may be the same column.
C10_ColumnInference ==
    fn = "resolve_columns" =>
        LET cols == [k \in 1..Len(arg) |-> Upper(arg[k])]
        IN  /\ ret.cols = cols
            /\ ret.part_no_col = ExpectedPartNoCol(cols)
            /\ ret.desc_col = ExpectedDescCol(cols)
            /\ ret.loc_col = ExpectedLocCol(cols)

\* three columns, none named after a location: the third is the location column;
\* and the keyword rules picked the other two out of order
C10_Witness ==
    /\ fn = "resolve_columns"
    /\ Len(arg) = 3
    /\ MatchingLoc(ret.cols) = {}
    /\ ret.loc_col = ret.cols[3]
    /\ ret.part_no_col = ret.cols[2]
    /\ ret.desc_col = ret.cols[1]

=============================================================================
